---- MODULE Spec2Model ----
(***************************************************************************)
(* Connect-N turn rendezvous: the singleton SharedBuffer and SafeThread of *)
(* connectn/exporter.py, the worker-side calls get_choice / set_choice,    *)
(* and the GameScene controller of connectn/gamescene.py that polls the    *)
(* buffer once per frame.                                                  *)
(*                                                                         *)
(* Two kinds of thread run: the presentation thread (Kivy's frame loop,    *)
(* position mpc) and the worker threads started by GameScene (position     *)
(* wpc[w]).  Every `with self.cond:` section of SharedBuffer is atomic     *)
(* with respect to the others; block() is the one method that gives the    *)
(* lock up in the middle (Condition.wait), so the lock holder is state.    *)
(***************************************************************************)
EXTENDS Integers, Sequences, FiniteSets, TLC

\* ------------------------------------------------------------- bounds
\* Worker threads ever started: the first game plus MaxThreads-1 resets.
MaxThreads == 2

\* ---------------------------------------------------------- constants
STATE_WAITING  == 0
STATE_SELECT   == 1
STATE_DELAY    == 2
STATE_ANIMATE  == 3
STATE_COMPLETE == 4
STATE_RESET    == 5
\* Board size as set from the command line (python connectn 1 2 1).
BOARD_ROWS == 1
BOARD_COLS == 2

Threads == 1..MaxThreads
Cols    == 0..(BOARD_COLS - 1)
\* Player colours: the identities passed to get_choice / set_choice.
Idents  == {"red", "blue"}
\* The colours whose player _makePlayers builds as an AIPlayer (type 1 or 2);
\* the others are human Players (type 0).
AutoIdents == {"blue"}
\* An identity that is the colour of no player of the game.
Strangers == {"green"}
\* Python's None, as an identity, as a column and as a whole message.
NoIdent == "none"
NoValue == 0 - 1
NoMsg   == <<>>
\* No thread holds the condition's lock.
Free    == 0

\* A message is the tuple (tag, push, value) of exporter.py.
Msg(tag, push, value) == <<tag, push, value>>
Messages == Idents \X BOOLEAN \X (Cols \cup {NoValue})

\* gamescene.py _piece: None or a Piece (column under it, column the choice
\* animation ends on, _inplace, the running animator).
NoPiece == [col |-> NoValue, target |-> NoValue, inplace |-> FALSE, anim |-> "none"]
\* exporter.py: the request a worker is in the middle of.
NoCall  == [kind |-> "none", ident |-> NoIdent, value |-> NoValue]

VARIABLES
    data,       \* SharedBuffer.data: sequence of messages
    blocked,    \* SharedBuffer.blocked
    invalid,    \* SharedBuffer.invalid
    lock,       \* holder of SharedBuffer.cond's lock (Free or a worker)
    waiters,    \* Condition._waiters: workers inside cond.wait(), oldest first
    wpc,        \* position of each worker thread
    killed,     \* SystemExit injected by kill() and not yet raised
    crashed,    \* SafeThread._crashed
    fault,      \* history: an exception has left the thread's run()
    call,       \* the get_choice / set_choice call a worker is inside
    wret,       \* what get_choice returned to the worker (until its next call)
    nthreads,   \* SafeThreads started so far
    thread,     \* GameScene._thread (index of the current worker)
    state,      \* GameScene._state
    color,      \* GameScene._color
    piece,      \* GameScene._piece
    press,      \* Button._press of the reset button is not None
    touch,      \* inpt.touch of the frame being processed
    heights,    \* pieces in each column of the current game's board
    winner,     \* Game.getWinner() of the current game
    mpc,        \* position of the presentation thread inside update/cleanup
    after,      \* what the running cleanup() returns to
    dropcol,    \* history: col of the _waitOnDrop that answered the current turn
    caught,     \* history: how invalidation met the thread's latest block():
                \* "before" it was entered, "during" its cond.wait(), or "no"
    instance    \* SharedBuffer has its class attribute `instance`

chanVars   == <<data, blocked, invalid, lock, waiters>>
workerVars == <<wpc, killed, crashed, fault, call, wret, caught>>
sceneVars  == <<nthreads, thread, state, color, piece, press, touch, mpc, after,
                dropcol>>
gameVars   == <<heights, winner>>
vars == <<data, blocked, invalid, lock, waiters, wpc, killed, crashed, fault,
          call, wret,
          nthreads, thread, state, color, piece, press, touch, heights, winner,
          mpc, after, dropcol, caught, instance>>

\* ------------------------------------------------------ SharedBuffer
\* Each operator is the effect of one method body run under the lock.

\* post: append unless invalid.
PostData(d, inv, m) == IF inv THEN d ELSE Append(d, m)

\* poll returning the message posted last, as pop() would.
PollValueNewest(d, inv) == IF inv \/ d = <<>> THEN NoMsg ELSE d[Len(d)]

\* poll: pop(0) unless invalid; an empty list raises inside the try and the
\* bare except leaves value = None.
PollValue(d, inv) == IF inv \/ d = <<>> THEN NoMsg ELSE Head(d)
PollData(d, inv)  == IF inv \/ d = <<>> THEN d ELSE Tail(d)

\* A notify() that wakes nobody.
NotifyLost(ws) == ws

\* unblock: clear blocked and notify() one waiter, unless invalid.
UnblockBlocked(b, inv) == IF inv THEN b ELSE FALSE
\* Condition.notify(n=1): the oldest waiter leaves the wait queue.
NotifyOne(ws) == IF ws = <<>> THEN ws ELSE Tail(ws)
\* Condition.notify_all(): every waiter leaves the wait queue.
NotifyAll(ws) == <<>>
UnblockWaiters(ws, inv) == IF inv THEN ws ELSE NotifyOne(ws)

\* invalidate: invalid = True.
InvalidateFlag(inv) == TRUE

\* reset that leaves the list, or the blocked flag, as it finds it.
ResetDataKeep(d, inv)    == d
ResetBlockedKeep(b, inv) == b

\* reset that leaves the buffer invalid.
ResetFlagKeep(inv) == inv

\* reset that empties the list whether the buffer is invalid or not.
ResetDataAlways(d, inv) == <<>>

\* reset: only an invalid buffer is restored to its initial values.
ResetData(d, inv)    == IF inv THEN <<>> ELSE d
ResetBlocked(b, inv) == IF inv THEN FALSE ELSE b
ResetFlag(inv)       == FALSE
ResetWaiters(ws, inv) == IF inv THEN NotifyAll(ws) ELSE ws

\* A worker inside cond.wait() that has been notified and not yet run again.
InSeq(x, s) == \E i \in 1..Len(s) : s[i] = x

\* --------------------------------------------------------- SafeThread
\* is_alive() that turns False as soon as _crashed is set.
IsAliveUntilCrash(w) == wpc[w] \notin {"new", "dead"} /\ ~crashed[w]

\* Thread.is_alive(): from start() until _safe_run_ has returned.
IsAlive(w) == wpc[w] \notin {"new", "dead"}

\* --------------------------------------------------------------- Board
\* An isFullColumn that finds room in every column.
IsFullColumnNever(c) == FALSE

IsFullColumn(c) == heights[c] >= BOARD_ROWS
IsFullBoard     == \A c \in Cols : IsFullColumn(c)

\* -------------------------------------------------------------- Init
\* The state when GameScene.__init__ returns: a fresh singleton buffer,
\* the first worker started, _state = STATE_WAITING.
Init ==
    /\ data = <<>>
    /\ blocked = FALSE
    /\ invalid = FALSE
    /\ lock = Free
    /\ waiters = <<>>
    /\ wpc = [w \in Threads |-> IF w = 1 THEN "run" ELSE "new"]
    /\ killed = [w \in Threads |-> FALSE]
    /\ crashed = [w \in Threads |-> FALSE]
    /\ fault = [w \in Threads |-> FALSE]
    /\ call = [w \in Threads |-> NoCall]
    /\ wret = [w \in Threads |-> NoValue]
    /\ nthreads = 1
    /\ thread = 1
    /\ state = STATE_WAITING
    /\ color = NoIdent
    /\ piece = NoPiece
    /\ press = FALSE
    /\ touch = NoValue
    /\ heights = [c \in Cols |-> 0]
    /\ winner = NoIdent
    /\ mpc = "frame"
    /\ after = "none"
    /\ dropcol = NoValue
    /\ caught = [w \in Threads |-> "no"]
    /\ instance = FALSE


\* ------------------------------------------------------- worker thread
\* _safe_run_ without its except clause.
SafeRunCrashedNot(c, w) == c

\* _safe_run_: `except: self._crashed = True` for whatever leaves run().
SafeRunCrashed(c, w) == [c EXCEPT ![w] = TRUE]

\* A worker runs main_loop(game) = game.run(): player logic that places
\* pieces on the game's board and calls get_choice / set_choice.

\* Player.chooseMove: connectn.get_choice(self._color) is entered.
WorkerCallGet(w, id) ==
    /\ wpc[w] = "run" /\ ~killed[w]
    /\ call' = [call EXCEPT ![w] = [kind |-> "get", ident |-> id, value |-> NoValue]]
    /\ wret' = [wret EXCEPT ![w] = NoValue]
    /\ wpc' = [wpc EXCEPT ![w] = "post"]
    /\ UNCHANGED <<chanVars, killed, crashed, fault, caught, sceneVars, gameVars, instance>>

\* An automated player reports its column: set_choice(ident, value) is entered.
WorkerCallSet(w, id, c) ==
    /\ wpc[w] = "run" /\ ~killed[w]
    /\ call' = [call EXCEPT ![w] = [kind |-> "set", ident |-> id, value |-> c]]
    /\ wret' = [wret EXCEPT ![w] = NoValue]
    /\ wpc' = [wpc EXCEPT ![w] = "post"]
    /\ UNCHANGED <<chanVars, killed, crashed, fault, caught, sceneVars, gameVars, instance>>

\* Board.place from the worker: a piece lands in a column that has room.
WorkerPlace(w, c) ==
    /\ wpc[w] = "run" /\ ~killed[w]
    /\ w = thread
    /\ ~IsFullColumn(c)
    /\ heights' = [heights EXCEPT ![c] = @ + 1]
    /\ UNCHANGED <<chanVars, workerVars, sceneVars, winner>>
    /\ UNCHANGED instance

\* `buffer = SharedBuffer()` and buffer.post((ident,push,value)) of
\* get_choice / set_choice.
WorkerPost(w) ==
    /\ wpc[w] = "post" /\ ~killed[w]
    /\ lock = Free
    /\ instance' = TRUE
    /\ data' = PostData(data, invalid,
                        Msg(call[w].ident, call[w].kind = "set", call[w].value))
    /\ wpc' = [wpc EXCEPT ![w] = "block"]
    /\ UNCHANGED <<blocked, invalid, lock, waiters, killed, crashed, fault, call, wret,
                   caught, sceneVars, gameVars>>

\* block(): the lock is taken and blocked = True, whatever invalid is.
WorkerBlockEnter(w) ==
    /\ wpc[w] = "block" /\ ~killed[w]
    /\ lock = Free
    /\ lock' = w
    /\ blocked' = TRUE
    /\ caught' = [caught EXCEPT ![w] = IF invalid THEN "before" ELSE "no"]
    /\ wpc' = [wpc EXCEPT ![w] = "check"]
    /\ UNCHANGED <<data, invalid, waiters, killed, crashed, fault, call, wret, sceneVars,
                   gameVars, instance>>

\* A wait that keeps the lock.
WaitLockHeld(w) == w

\* The lock as cond.wait() leaves it: given up while the thread waits.
WaitLock(w) == Free

\* The loop of block() without its wait, and without its invalid test.
BlockOutcomeNoWait(b, inv) == "return"
BlockOutcomeNoInvalid(b, inv) == IF ~b THEN "return" ELSE "wait"

\* block(): one test of `while self.blocked`, holding the lock.  Not blocked:
\* block() returns.  Blocked and invalid: RuntimeError.  Blocked and valid:
\* cond.wait() gives the lock up and queues the thread.
BlockOutcome(b, inv) ==
    IF ~b THEN "return" ELSE IF inv THEN "raise" ELSE "wait"

WorkerBlockCheck(w) ==
    /\ wpc[w] = "check" /\ ~killed[w]
    /\ lock = w
    /\ CASE BlockOutcome(blocked, invalid) = "return" ->
              /\ wpc' = [wpc EXCEPT ![w] = "poll"]
              /\ lock' = Free
              /\ UNCHANGED <<waiters, crashed, fault, call>>
         [] BlockOutcome(blocked, invalid) = "raise" ->
              /\ wpc' = [wpc EXCEPT ![w] = "exiting"]
              /\ lock' = Free
              /\ crashed' = SafeRunCrashed(crashed, w)
              /\ fault' = [fault EXCEPT ![w] = TRUE]
              /\ call' = [call EXCEPT ![w] = NoCall]
              /\ UNCHANGED waiters
         [] BlockOutcome(blocked, invalid) = "wait" ->
              /\ wpc' = [wpc EXCEPT ![w] = "wait"]
              /\ lock' = WaitLock(w)
              /\ waiters' = Append(waiters, w)
              /\ UNCHANGED <<crashed, fault, call>>
    /\ UNCHANGED <<data, blocked, invalid, killed, wret, caught, sceneVars,
                   gameVars, instance>>

\* A waiter that notify()/notify_all() has released.
Notified(w) == wpc[w] = "wait" /\ ~InSeq(w, waiters)

\* cond.wait() returns in a notified thread: the lock is taken again and the
\* loop of block() is tested once more.
WorkerWake(w) ==
    /\ Notified(w) /\ ~killed[w]
    /\ lock = Free
    /\ lock' = w
    /\ wpc' = [wpc EXCEPT ![w] = "check"]
    /\ UNCHANGED <<data, blocked, invalid, waiters, killed, crashed, fault, call, wret,
                   caught, sceneVars, gameVars, instance>>

\* get_choice with the tag test the wrong way round.
ChoiceResultSwapped(c, m) ==
    IF c.kind = "get" /\ m[1] # c.ident THEN m[3] ELSE NoValue

\* The tuple unpacking `tag,push,value = buffer.poll()` and what follows it
\* in get_choice (the tag test) and set_choice (nothing).
ChoiceResult(c, m) ==
    IF c.kind = "get" /\ m[1] = c.ident THEN m[3] ELSE NoValue

\* buffer.poll() after block() has returned.  Unpacking None is a TypeError,
\* caught by _safe_run_.
WorkerPoll(w) ==
    /\ wpc[w] = "poll" /\ ~killed[w]
    /\ lock = Free
    /\ data' = PollData(data, invalid)
    /\ IF PollValue(data, invalid) = NoMsg
         THEN /\ wpc' = [wpc EXCEPT ![w] = "exiting"]
              /\ crashed' = SafeRunCrashed(crashed, w)
              /\ fault' = [fault EXCEPT ![w] = TRUE]
              /\ UNCHANGED wret
         ELSE /\ wpc' = [wpc EXCEPT ![w] = "run"]
              /\ wret' = [wret EXCEPT ![w] =
                            IF call[w].kind = "get"
                              THEN ChoiceResult(call[w], PollValue(data, invalid))
                              ELSE wret[w]]
              /\ UNCHANGED <<crashed, fault>>
    /\ call' = [call EXCEPT ![w] = NoCall]
    /\ UNCHANGED <<blocked, invalid, lock, waiters, killed, caught, sceneVars,
                   gameVars, instance>>

\* game.run() returns: the game is over, with or without a winner.
WorkerReturn(w, win) ==
    /\ wpc[w] = "run" /\ ~killed[w]
    /\ w = thread
    /\ win # NoIdent \/ IsFullBoard
    /\ winner' = win
    /\ wpc' = [wpc EXCEPT ![w] = "exiting"]
    /\ UNCHANGED <<chanVars, killed, crashed, fault, call, wret, caught,
                   sceneVars, heights>>
    /\ UNCHANGED instance

\* The player logic raises: _safe_run_ catches it and sets _crashed.
WorkerRaise(w) ==
    /\ wpc[w] = "run" /\ ~killed[w]
    /\ crashed' = SafeRunCrashed(crashed, w)
    /\ fault' = [fault EXCEPT ![w] = TRUE]
    /\ wpc' = [wpc EXCEPT ![w] = "exiting"]
    /\ UNCHANGED <<chanVars, killed, call, wret, caught, sceneVars, gameVars, instance>>

\* Where the SystemExit injected by kill() is raised: at the thread's next
\* bytecode.  That is at once in a running thread; a thread inside
\* cond.wait() runs again only when notified, and wait()'s finally takes the
\* lock again before the exception leaves block().
KillPoint(w) ==
    \/ wpc[w] \in {"run", "post", "block", "poll"}
    \/ wpc[w] = "check" /\ lock = w
    \/ Notified(w) /\ lock = Free

\* The injected SystemExit unwinds the thread: every `with self.cond:` is
\* left, and _safe_run_ catches it and sets _crashed.
WorkerKilled(w) ==
    /\ killed[w]
    /\ KillPoint(w)
    /\ lock' = IF lock = w THEN Free ELSE lock
    /\ killed' = [killed EXCEPT ![w] = FALSE]
    /\ crashed' = SafeRunCrashed(crashed, w)
    /\ fault' = [fault EXCEPT ![w] = TRUE]
    /\ call' = [call EXCEPT ![w] = NoCall]
    /\ wpc' = [wpc EXCEPT ![w] = "exiting"]
    /\ UNCHANGED <<data, blocked, invalid, waiters, wret, caught, sceneVars,
                   gameVars, instance>>

\* _safe_run_ returns and the thread ends: is_alive() is False from here on.
WorkerExit(w) ==
    /\ wpc[w] = "exiting"
    /\ wpc' = [wpc EXCEPT ![w] = "dead"]
    /\ killed' = [killed EXCEPT ![w] = FALSE]
    /\ UNCHANGED <<chanVars, crashed, fault, call, wret, caught, sceneVars,
                   gameVars, instance>>

\* -------------------------------------------------- presentation thread
\* inpt.touch: None (NoValue), a point over board column c, or a point
\* inside the Reset button.
TouchReset == BOARD_COLS
Touches == {NoValue} \cup Cols \cup {TouchReset}

\* update(): self._reset.update(inpt.touch), i.e. Button.update.  A touch
\* inside the released button is a press (_reset_press: STATE_RESET); no
\* touch on a pressed button is a release (_reset_release, which starts with
\* cleanup()).  A press is offered only while another worker may be started.
UpdateButton(t) ==
    /\ mpc = "frame"
    /\ t = TouchReset /\ ~press => nthreads < MaxThreads
    /\ touch' = t
    /\ IF ~press /\ t = TouchReset
         THEN /\ press' = TRUE
              /\ state' = STATE_RESET
              /\ mpc' = "dispatch"
              /\ UNCHANGED after
         ELSE IF press /\ t = NoValue
         THEN /\ mpc' = "cl_alive"
              /\ after' = "restart"
              /\ UNCHANGED <<press, state>>
         ELSE /\ mpc' = "dispatch"
              /\ UNCHANGED <<press, state, after>>
    /\ UNCHANGED <<chanVars, workerVars, gameVars, instance, nthreads, thread, color,
                   piece, dropcol>>

\* The window closes: ConnectN.cleanup calls GameScene.cleanup.
AppCleanup ==
    /\ mpc = "frame"
    /\ mpc' = "cl_alive"
    /\ after' = "stop"
    /\ UNCHANGED <<chanVars, workerVars, gameVars, instance, nthreads, thread, state,
                   color, piece, press, touch, dropcol>>

\* cleanup(): `if not self._thread is None and self._thread.is_alive()`.
CleanupAlive ==
    /\ mpc = "cl_alive"
    /\ mpc' = IF IsAlive(thread) THEN "cl_kill" ELSE "cl_inval"
    /\ UNCHANGED <<chanVars, workerVars, gameVars, instance, nthreads, thread, state,
                   color, piece, press, touch, after, dropcol>>

\* kill() leaving nothing pending in the thread.
KillPendingLost(k, w) == k

\* SafeThread.kill: PyThreadState_SetAsyncExc leaves SystemExit pending in
\* the thread.
KillPending(k, w) == [k EXCEPT ![w] = TRUE]

\* cleanup(): self._thread.kill().  A thread that has ended since is_alive()
\* is not found (ret == 0) and kill raises ValueError out of cleanup.
CleanupKill ==
    /\ mpc = "cl_kill"
    /\ IF IsAlive(thread)
         THEN /\ killed' = KillPending(killed, thread)
              /\ mpc' = "cl_inval"
         ELSE /\ mpc' = "error"
              /\ UNCHANGED killed
    /\ UNCHANGED <<chanVars, wpc, crashed, fault, call, wret, caught, gameVars, instance,
                   nthreads, thread, state, color, piece, press, touch, after,
                   dropcol>>

\* invalidate() marks the threads it finds inside cond.wait().
Caught(cg, ws) == [w \in DOMAIN cg |-> IF InSeq(w, ws) THEN "during" ELSE cg[w]]

\* cleanup(): `buffer = SharedBuffer()` and buffer.invalidate().
CleanupInvalidate ==
    /\ mpc = "cl_inval"
    /\ lock = Free
    /\ instance' = TRUE
    /\ invalid' = InvalidateFlag(invalid)
    /\ waiters' = NotifyAll(waiters)
    /\ caught' = Caught(caught, waiters)
    /\ mpc' = "cl_reset"
    /\ UNCHANGED <<data, blocked, lock, wpc, killed, crashed, fault, call, wret,
                   gameVars, nthreads, thread, state, color, piece, press,
                   touch, after, dropcol>>

\* cleanup(): buffer.reset(), after which cleanup returns.
CleanupReset ==
    /\ mpc = "cl_reset"
    /\ lock = Free
    /\ data' = ResetData(data, invalid)
    /\ blocked' = ResetBlocked(blocked, invalid)
    /\ waiters' = ResetWaiters(waiters, invalid)
    /\ invalid' = ResetFlag(invalid)
    /\ mpc' = IF after = "restart" THEN "restart" ELSE "stopped"
    /\ after' = "none"
    /\ UNCHANGED <<lock, workerVars, gameVars, instance, nthreads, thread, state, color,
                   piece, press, touch, dropcol>>

\* _reset_release after cleanup(): a new Game and Container, no piece, a new
\* SafeThread started, STATE_WAITING; then Button.update clears _press.
ResetRelease ==
    /\ mpc = "restart"
    /\ nthreads < MaxThreads
    /\ heights' = [c \in Cols |-> 0]
    /\ winner' = NoIdent
    /\ color' = NoIdent
    /\ piece' = NoPiece
    /\ nthreads' = nthreads + 1
    /\ thread' = nthreads + 1
    /\ wpc' = [wpc EXCEPT ![nthreads + 1] = "run"]
    /\ state' = STATE_WAITING
    /\ press' = FALSE
    /\ mpc' = "dispatch"
    /\ dropcol' = NoValue
    /\ UNCHANGED <<chanVars, killed, crashed, fault, call, wret, caught, touch, after>>
    /\ UNCHANGED instance

\* update() treating a pressed Reset button like a dropping piece.
DispatchResetDrops(s) ==
    IF s = STATE_WAITING THEN "_checkForPlayer"
    ELSE IF s = STATE_SELECT THEN "_getPlayerChoice"
    ELSE IF s = STATE_DELAY THEN "_waitOnChoice"
    ELSE IF s \in {STATE_ANIMATE, STATE_RESET} THEN "_waitOnDrop"
    ELSE "none"

\* update() still looking for the player's request while Reset is held down.
DispatchResetPolls(s) ==
    IF s \in {STATE_WAITING, STATE_RESET} THEN "_checkForPlayer"
    ELSE IF s = STATE_SELECT THEN "_getPlayerChoice"
    ELSE IF s = STATE_DELAY THEN "_waitOnChoice"
    ELSE IF s = STATE_ANIMATE THEN "_waitOnDrop"
    ELSE "none"

\* update() still taking touches for a piece when the game is over.
DispatchCompleteSelects(s) ==
    IF s = STATE_WAITING THEN "_checkForPlayer"
    ELSE IF s \in {STATE_SELECT, STATE_COMPLETE} THEN "_getPlayerChoice"
    ELSE IF s = STATE_DELAY THEN "_waitOnChoice"
    ELSE IF s = STATE_ANIMATE THEN "_waitOnDrop"
    ELSE "none"

\* update(): the if / elif chain on self._state that picks the handler of
\* this frame; STATE_COMPLETE and STATE_RESET have none.
Dispatch(s) ==
    IF s = STATE_WAITING THEN "_checkForPlayer"
    ELSE IF s = STATE_SELECT THEN "_getPlayerChoice"
    ELSE IF s = STATE_DELAY THEN "_waitOnChoice"
    ELSE IF s = STATE_ANIMATE THEN "_waitOnDrop"
    ELSE "none"

\* _checkForPlayer with the game-over test ahead of the crash test, and
\* without the game-over test.
PlayerBranchOverFirst(alive, crash, over) ==
    IF alive THEN "alive" ELSE IF over THEN "complete"
    ELSE IF crash THEN "crashed" ELSE "ended"
PlayerBranchNoOver(alive, crash, over) ==
    IF alive THEN "alive" ELSE IF crash THEN "crashed" ELSE "ended"
\* _checkForPlayer without the crash test.
PlayerBranchNoCrash(alive, crash, over) ==
    IF alive THEN "alive" ELSE IF over THEN "complete" ELSE "ended"

\* The if / elif chain of _checkForPlayer: is_alive(), then crashed, then
\* getWinner() or isFullBoard(), then the final else.
PlayerBranch(alive, crash, over) ==
    IF alive THEN "alive" ELSE IF crash THEN "crashed"
    ELSE IF over THEN "complete" ELSE "ended"

\* Game.getWinner() is not None, or Board.isFullBoard().
GameOver == winner # NoIdent \/ IsFullBoard

\* update() in STATE_WAITING: _checkForPlayer up to the is_alive() test and
\* the branches of a thread that has ended (SystemExit for a crash,
\* STATE_COMPLETE for a finished game).
CheckForPlayer ==
    /\ mpc = "dispatch"
    /\ Dispatch(state) = "_checkForPlayer"
    /\ LET b == PlayerBranch(IsAlive(thread), crashed[thread], GameOver) IN
         /\ mpc' = IF b = "alive" THEN "cfp_blocked"
                   ELSE IF b = "crashed" THEN "exit" ELSE "anim"
         /\ state' = IF b = "complete" THEN STATE_COMPLETE ELSE state
    /\ UNCHANGED <<chanVars, workerVars, gameVars, instance, nthreads, thread, color,
                   piece, press, touch, after, dropcol>>

\* _checkForPlayer: `buffer = SharedBuffer()` and `if buffer.isBlocked():`.
CheckBlocked ==
    /\ mpc = "cfp_blocked"
    /\ lock = Free
    /\ instance' = TRUE
    /\ mpc' = IF blocked THEN "cfp_poll" ELSE "anim"
    /\ UNCHANGED <<chanVars, workerVars, gameVars, nthreads, thread, state, color,
                   piece, press, touch, after, dropcol>>

\* _makePiece followed by Container.choosePiece: the piece hovers over the
\* middle column and the choice animation will end on column c.
ChoicePiece(c) ==
    [col |-> BOARD_COLS \div 2, target |-> c, inplace |-> FALSE, anim |-> "choice"]

\* _checkForPlayer with its `if push:` test the wrong way round.
PolledStateSwapped(push) == IF push THEN STATE_SELECT ELSE STATE_DELAY

\* _processAI dropping the piece at once instead of starting the fake-out.
PolledStateAnimate(push) == IF push THEN STATE_ANIMATE ELSE STATE_SELECT

\* The state _checkForPlayer leaves for a polled message: _processAI for a
\* push (STATE_DELAY), STATE_SELECT for a request.
PolledState(push) == IF push THEN STATE_DELAY ELSE STATE_SELECT

\* A _getPlayer that finds a player for every colour.
KnownPlayerAny(id) == TRUE

\* _getPlayer: `color in self._players`, the colours of the game's players.
KnownPlayer(id) == id \in Idents

\* _checkForPlayer: `tag,push,value = buffer.poll()` and the rest.  Unpacking
\* None raises TypeError; _getPlayer raises RuntimeError for a tag that is no
\* player's colour; _processAI raises RuntimeError for a full column and else
\* starts the choice animation.
CheckPoll ==
    /\ mpc = "cfp_poll"
    /\ lock = Free
    /\ data' = PollData(data, invalid)
    /\ LET m == PollValue(data, invalid) IN
       IF m = NoMsg
         THEN mpc' = "error" /\ UNCHANGED <<color, piece, state>>
         ELSE IF ~KnownPlayer(m[1])
         THEN mpc' = "error" /\ UNCHANGED <<color, piece, state>>
         ELSE /\ color' = m[1]
              /\ IF m[2]
                   THEN IF IsFullColumn(m[3])
                          THEN mpc' = "error" /\ UNCHANGED <<piece, state>>
                          ELSE /\ piece' = ChoicePiece(m[3])
                               /\ state' = PolledState(m[2])
                               /\ mpc' = "anim"
                   ELSE /\ state' = PolledState(m[2])
                        /\ mpc' = "anim"
                        /\ UNCHANGED piece
    /\ dropcol' = NoValue
    /\ UNCHANGED <<blocked, invalid, lock, waiters, workerVars, gameVars, instance, nthreads,
                   thread, press, touch, after>>

\* update() in STATE_SELECT: _getPlayerChoice.  A touch moves the piece over
\* the touched column; letting go drops it there unless the column is full.
GetPlayerChoice ==
    /\ mpc = "dispatch"
    /\ Dispatch(state) = "_getPlayerChoice"
    /\ IF touch # NoValue
         THEN /\ piece' = [col |-> touch, target |-> NoValue,
                           inplace |-> FALSE, anim |-> "none"]
              /\ UNCHANGED state
         ELSE IF piece = NoPiece
         THEN UNCHANGED <<piece, state>>
         ELSE IF IsFullColumn(piece.col)
         THEN piece' = NoPiece /\ UNCHANGED state
         ELSE /\ piece' = [piece EXCEPT !.anim = "drop"]
              /\ state' = STATE_ANIMATE
    /\ mpc' = "anim"
    /\ UNCHANGED <<chanVars, workerVars, gameVars, instance, nthreads, thread, color,
                   press, touch, after, dropcol>>

\* _waitOnChoice handing the turn to the human selection instead.
ChoiceDoneWrong == STATE_SELECT

\* The state _waitOnChoice moves to when the choice animation has ended.
ChoiceDoneState == STATE_ANIMATE

\* update() in STATE_DELAY: _waitOnChoice.
WaitOnChoice ==
    /\ mpc = "dispatch"
    /\ Dispatch(state) = "_waitOnChoice"
    /\ IF piece.inplace
         THEN /\ piece' = [piece EXCEPT !.inplace = FALSE, !.anim = "drop"]
              /\ state' = ChoiceDoneState
         ELSE UNCHANGED <<piece, state>>
    /\ mpc' = "anim"
    /\ UNCHANGED <<chanVars, workerVars, gameVars, instance, nthreads, thread, color,
                   press, touch, after, dropcol>>

\* _waitOnDrop: `if self._piece.isInPlace()`.
DropReadyAlways(p) == TRUE
DropReady(p) == p.inplace

\* update() in STATE_ANIMATE: _waitOnDrop up to the isInPlace() test.
WaitOnDrop ==
    /\ mpc = "dispatch"
    /\ Dispatch(state) = "_waitOnDrop"
    /\ mpc' = IF DropReady(piece) THEN "wod_post" ELSE "anim"
    /\ UNCHANGED <<chanVars, workerVars, gameVars, instance, nthreads, thread, state,
                   color, piece, press, touch, after, dropcol>>

\* The answer _waitOnDrop posts: (self._color, True, col).
Answer(id, c) == Msg(id, TRUE, c)

\* _waitOnDrop going on to unblock() with nothing posted.
DropDataUnposted(d, inv, m) == d

\* _waitOnDrop: buffer.post((self._color,True,col)), ahead of unblock().
DropData(d, inv, m) == PostData(d, inv, m)

\* _waitOnDrop: `buffer = SharedBuffer()`, and the column under the piece is
\* posted as the answer.
DropPost ==
    /\ mpc = "wod_post"
    /\ lock = Free
    /\ instance' = TRUE
    /\ dropcol' = piece.col
    /\ data' = DropData(data, invalid, Answer(color, piece.col))
    /\ piece' = NoPiece
    /\ mpc' = "wod_unblock"
    /\ UNCHANGED <<blocked, invalid, lock, waiters, workerVars, gameVars, nthreads,
                   thread, state, color, press, touch, after>>

\* _waitOnDrop: buffer.unblock(), then STATE_WAITING.
DropUnblock ==
    /\ mpc = "wod_unblock"
    /\ lock = Free
    /\ blocked' = UnblockBlocked(blocked, invalid)
    /\ waiters' = UnblockWaiters(waiters, invalid)
    /\ state' = STATE_WAITING
    /\ mpc' = "anim"
    /\ UNCHANGED <<data, invalid, lock, workerVars, gameVars, instance, nthreads, thread,
                   color, piece, press, touch, after, dropcol>>

\* update() in STATE_COMPLETE and STATE_RESET: no branch is taken.
NoDispatch ==
    /\ mpc = "dispatch"
    /\ Dispatch(state) = "none"
    /\ mpc' = "anim"
    /\ UNCHANGED <<chanVars, workerVars, gameVars, instance, nthreads, thread, state,
                   color, piece, press, touch, after, dropcol>>

\* update(): self._board.update(dt).  The piece's animator runs on; when it
\* ends the piece is in place (the choice animation ends over its target).
BoardUpdate(done) ==
    /\ mpc = "anim"
    /\ IF done /\ piece.anim = "drop"
         THEN piece' = [piece EXCEPT !.inplace = TRUE, !.anim = "none"]
         ELSE IF done /\ piece.anim = "choice"
         THEN piece' = [piece EXCEPT !.col = piece.target, !.inplace = TRUE,
                                     !.anim = "none"]
         ELSE UNCHANGED piece
    /\ touch' = NoValue
    /\ mpc' = "frame"
    /\ UNCHANGED <<chanVars, workerVars, gameVars, instance, nthreads, thread, state,
                   color, press, after, dropcol>>

\* ------------------------------------------- SharedBuffer as a library
\* The public methods of SharedBuffer called by any thread in any order:
\* the clients are MaxThreads threads that are outside every call ("run")
\* or inside block().  Posts stop at MaxData queued messages.
MaxData == 2

\* The buffer as _private_init_ leaves it, with the threads of T as its
\* clients, each at pc: outside every call ("run") or not started ("new");
\* made: some thread has constructed the singleton already.
InitLib(T, pc, made) ==
    /\ data = <<>>
    /\ blocked = FALSE
    /\ invalid = FALSE
    /\ lock = Free
    /\ waiters = <<>>
    /\ wpc = [w \in T |-> pc]
    /\ killed = [w \in T |-> FALSE]
    /\ crashed = [w \in T |-> FALSE]
    /\ fault = [w \in T |-> FALSE]
    /\ call = [w \in T |-> NoCall]
    /\ wret = [w \in T |-> NoValue]
    /\ nthreads = Cardinality(T)
    /\ thread = 1
    /\ state = STATE_WAITING
    /\ color = NoIdent
    /\ piece = NoPiece
    /\ press = FALSE
    /\ touch = NoValue
    /\ heights = [c \in Cols |-> 0]
    /\ winner = NoIdent
    /\ mpc = "api"
    /\ after = "none"
    /\ dropcol = NoValue
    /\ caught = [w \in T |-> "no"]
    /\ instance = made

InitApi == InitLib(Threads, "run", FALSE)

\* post(value)
ApiPost(w, m) ==
    /\ wpc[w] = "run"
    /\ instance
    /\ lock = Free
    /\ Len(data) < MaxData
    /\ data' = PostData(data, invalid, m)
    /\ UNCHANGED <<blocked, invalid, lock, waiters, workerVars, sceneVars, gameVars, instance>>

\* A SharedBuffer() that initialises the attributes on every call.
NewInitAlways(made, current, initial) == initial

\* __new__: _private_init_ runs only when the class has no instance yet.
NewInit(made, current, initial) == IF made THEN current ELSE initial

\* SharedBuffer(): __new__ under the lock of cond; the caller keeps whether
\* the instance was created by this call or was the cached one.
ApiNew(w) ==
    /\ wpc[w] = "run"
    /\ lock = Free
    /\ data' = NewInit(instance, data, <<>>)
    /\ blocked' = NewInit(instance, blocked, FALSE)
    /\ invalid' = NewInit(instance, invalid, FALSE)
    /\ instance' = TRUE
    /\ call' = [call EXCEPT ![w] = [kind |-> "new",
                                    ident |-> IF instance THEN "cached" ELSE "created",
                                    value |-> NoValue]]
    /\ UNCHANGED <<lock, waiters, wpc, killed, crashed, fault, wret, caught,
                   sceneVars, gameVars>>

\* What a library client keeps of the value poll() returned to it: None, or
\* the tag and the value of the message.
Polled(m) ==
    [kind |-> "polled",
     ident |-> IF m = NoMsg THEN NoIdent ELSE m[1],
     value |-> IF m = NoMsg THEN NoValue ELSE m[3]]

\* poll(), and the value it returns
ApiPoll(w) ==
    /\ wpc[w] = "run"
    /\ instance
    /\ lock = Free
    /\ data' = PollData(data, invalid)
    /\ call' = [call EXCEPT ![w] = Polled(PollValue(data, invalid))]
    /\ UNCHANGED <<blocked, invalid, lock, waiters, wpc, killed, crashed, fault,
                   wret, caught, sceneVars, gameVars, instance>>

\* unblock()
ApiUnblock(w) ==
    /\ wpc[w] = "run"
    /\ instance
    /\ lock = Free
    /\ blocked' = UnblockBlocked(blocked, invalid)
    /\ waiters' = UnblockWaiters(waiters, invalid)
    /\ UNCHANGED <<data, invalid, lock, workerVars, sceneVars, gameVars, instance>>

\* invalidate()
ApiInvalidate(w) ==
    /\ wpc[w] = "run"
    /\ instance
    /\ lock = Free
    /\ invalid' = InvalidateFlag(invalid)
    /\ waiters' = NotifyAll(waiters)
    /\ caught' = Caught(caught, waiters)
    /\ UNCHANGED <<data, blocked, lock, wpc, killed, crashed, fault, call, wret,
                   sceneVars, gameVars, instance>>

\* reset()
ApiReset(w) ==
    /\ wpc[w] = "run"
    /\ instance
    /\ lock = Free
    /\ data' = ResetData(data, invalid)
    /\ blocked' = ResetBlocked(blocked, invalid)
    /\ waiters' = ResetWaiters(waiters, invalid)
    /\ invalid' = ResetFlag(invalid)
    /\ UNCHANGED <<lock, workerVars, sceneVars, gameVars, instance>>

\* block() is called: the steps inside it are WorkerBlockEnter,
\* WorkerBlockCheck and WorkerWake.
ApiBlock(w) ==
    /\ wpc[w] = "run"
    /\ instance
    /\ wpc' = [wpc EXCEPT ![w] = "block"]
    /\ crashed' = [crashed EXCEPT ![w] = FALSE]
    /\ fault' = [fault EXCEPT ![w] = FALSE]
    /\ UNCHANGED <<chanVars, killed, call, wret, caught, sceneVars, gameVars, instance>>

\* block() has returned ("poll") or raised RuntimeError ("exiting", with
\* crashed set): the caller goes on.
ApiBlockDone(w) ==
    /\ wpc[w] \in {"poll", "exiting"}
    /\ wpc' = [wpc EXCEPT ![w] = "run"]
    /\ UNCHANGED <<chanVars, killed, crashed, fault, call, wret, caught, sceneVars,
                   gameVars, instance>>

\* The messages the library clients post.
ApiMessages == {Msg(id, FALSE, NoValue) : id \in Idents}

Api(w) ==
    \/ \E m \in ApiMessages : ApiPost(w, m)
    \/ ApiPoll(w)
    \/ ApiUnblock(w)
    \/ ApiInvalidate(w)
    \/ ApiReset(w)
    \/ ApiBlock(w)
    \/ WorkerBlockEnter(w)
    \/ WorkerBlockCheck(w)
    \/ WorkerWake(w)
    \/ ApiBlockDone(w)

NextApi == \E w \in Threads : ApiNew(w) \/ Api(w)

ChanSpec == InitApi /\ [][NextApi]_vars

\* The same library with MaxClients client threads: enough of them for
\* several to wait inside block() while another one calls the buffer.
MaxClients == 3
Clients == 1..MaxClients

InitClients == InitLib(Clients, "run", TRUE)

NextClients == \E w \in Clients : Api(w)

ClientSpec == InitClients /\ [][NextClients]_vars

\* --------------------------------------------- SafeThread as a library
\* start() and kill() called on SafeThread objects in any order, from the
\* moment they are constructed; a started thread runs its target, which
\* returns or raises.

\* What a caller keeps of a start() or kill() call: the method and how it
\* ended.
Called(method, outcome) == [kind |-> method, ident |-> outcome, value |-> NoValue]

\* A start() that starts the thread whatever its state.
StartOutcomeAgain(pc) == "started"

\* start(): self._thread.start() starts a thread that was never started and
\* raises RuntimeError for any other.
StartOutcome(pc) == IF pc = "new" THEN "started" ELSE "RuntimeError"

ThreadStart(w) ==
    /\ mpc = "api"
    /\ wpc' = [wpc EXCEPT ![w] = IF StartOutcome(wpc[w]) = "started"
                                   THEN "run" ELSE @]
    /\ call' = [call EXCEPT ![w] = Called("start", StartOutcome(wpc[w]))]
    /\ UNCHANGED <<chanVars, killed, crashed, fault, wret, caught, sceneVars,
                   gameVars, instance>>

\* A kill() that reaches a thread that was never started.
KillOutcomeUnstarted(pc) == IF pc = "dead" THEN "ValueError" ELSE "killed"

\* kill(): self._thread.ident is None until the thread is started, and
\* ctypes.c_long(None) raises TypeError; PyThreadState_SetAsyncExc returns 0
\* for a thread that has ended (ValueError) and 1 for a live one.
KillOutcome(pc) ==
    IF pc = "new" THEN "TypeError"
    ELSE IF pc = "dead" THEN "ValueError" ELSE "killed"

ThreadKill(w) ==
    /\ mpc = "api"
    /\ killed' = IF KillOutcome(wpc[w]) = "killed"
                   THEN KillPending(killed, w) ELSE killed
    /\ call' = [call EXCEPT ![w] = Called("kill", KillOutcome(wpc[w]))]
    /\ UNCHANGED <<chanVars, wpc, crashed, fault, wret, caught, sceneVars,
                   gameVars, instance>>

InitThreads == InitLib(Threads, "new", FALSE)

NextThreads ==
    \E w \in Threads :
       \/ ThreadStart(w)
       \/ ThreadKill(w)
       \/ \E win \in Idents \cup {NoIdent} : WorkerReturn(w, win)
       \/ WorkerRaise(w)
       \/ WorkerKilled(w)
       \/ WorkerExit(w)

ThreadSpec == InitThreads /\ [][NextThreads]_vars

\* ------------------------------------------ reset() seen by its caller
\* The library again, with every client noting the reset() calls it makes:
\* reset() returns None, so what the caller can tell of the call is whether
\* the buffer was invalid when it ran.
ApiResetCall(w) ==
    /\ wpc[w] = "run"
    /\ instance
    /\ lock = Free
    /\ data' = ResetData(data, invalid)
    /\ blocked' = ResetBlocked(blocked, invalid)
    /\ waiters' = ResetWaiters(waiters, invalid)
    /\ invalid' = ResetFlag(invalid)
    /\ call' = [call EXCEPT ![w] = Called("reset", IF invalid THEN "invalid"
                                                               ELSE "valid")]
    /\ UNCHANGED <<lock, wpc, killed, crashed, fault, wret, caught, sceneVars,
                   gameVars, instance>>

InitReset == InitLib(Threads, "run", TRUE)

NextReset ==
    \E w \in Threads :
       \/ \E m \in ApiMessages : ApiPost(w, m)
       \/ ApiPoll(w)
       \/ ApiUnblock(w)
       \/ ApiInvalidate(w)
       \/ ApiResetCall(w)
       \/ ApiBlock(w)
       \/ WorkerBlockEnter(w)
       \/ WorkerBlockCheck(w)
       \/ WorkerWake(w)
       \/ ApiBlockDone(w)

ResetSpec == InitReset /\ [][NextReset]_vars

\* ---------------------------------------------------------------- Next
Worker(w) ==
    \/ \E id \in Idents : WorkerCallGet(w, id)
    \/ \E id \in Idents, c \in Cols : WorkerCallSet(w, id, c)
    \/ \E c \in Cols : WorkerPlace(w, c)
    \/ WorkerPost(w)
    \/ WorkerBlockEnter(w)
    \/ WorkerBlockCheck(w)
    \/ WorkerWake(w)
    \/ WorkerPoll(w)
    \/ \E win \in Idents \cup {NoIdent} : WorkerReturn(w, win)
    \/ WorkerRaise(w)
    \/ WorkerKilled(w)
    \/ WorkerExit(w)

Scene ==
    \/ \E t \in Touches : UpdateButton(t)
    \/ AppCleanup
    \/ CleanupAlive
    \/ CleanupKill
    \/ CleanupInvalidate
    \/ CleanupReset
    \/ ResetRelease
    \/ CheckForPlayer
    \/ CheckBlocked
    \/ CheckPoll
    \/ GetPlayerChoice
    \/ WaitOnChoice
    \/ WaitOnDrop
    \/ DropPost
    \/ DropUnblock
    \/ NoDispatch
    \/ \E done \in BOOLEAN : BoardUpdate(done)

Next == Scene \/ \E w \in Threads : Worker(w)

Spec == Init /\ [][Next]_vars

\* ------------------------------------------------- a rejected message
\* The program with a worker that may also name a colour that is no
\* player's, and with a frame loop that may go on after an exception has
\* left update(): the frame that raised is abandoned (its board update is
\* skipped) and update() is called again for the next frame.
StrangerCall(w) ==
    \/ \E id \in Strangers : WorkerCallGet(w, id)
    \/ \E id \in Strangers, c \in Cols : WorkerCallSet(w, id, c)

FrameAbandoned ==
    /\ mpc = "error" /\ after = "none"
    /\ mpc' = "frame"
    /\ UNCHANGED <<chanVars, workerVars, gameVars, instance, nthreads, thread, state,
                   color, piece, press, touch, after, dropcol>>

NextReject == Next \/ FrameAbandoned \/ \E w \in Threads : StrangerCall(w)

RejectSpec == Init /\ [][NextReject]_vars

\* ------------------------------------------------------ killing a worker
\* The runs in which every request is made by one colour for one column and
\* no piece is placed: what block(), kill() and cleanup() do does not depend
\* on what the messages carry.
KillIdents  == {"red"}
KillCols    == {0}
KillTouches == {NoValue, TouchReset} \cup KillCols

KillWorker(w) ==
    \/ \E id \in KillIdents : WorkerCallGet(w, id)
    \/ \E id \in KillIdents, c \in KillCols : WorkerCallSet(w, id, c)
    \/ WorkerPost(w)
    \/ WorkerBlockEnter(w)
    \/ WorkerBlockCheck(w)
    \/ WorkerWake(w)
    \/ WorkerPoll(w)
    \/ \E win \in KillIdents : WorkerReturn(w, win)
    \/ WorkerRaise(w)
    \/ WorkerKilled(w)
    \/ WorkerExit(w)

KillScene ==
    \/ \E t \in KillTouches : UpdateButton(t)
    \/ AppCleanup
    \/ CleanupAlive
    \/ CleanupKill
    \/ CleanupInvalidate
    \/ CleanupReset
    \/ ResetRelease
    \/ CheckForPlayer
    \/ CheckBlocked
    \/ CheckPoll
    \/ GetPlayerChoice
    \/ WaitOnChoice
    \/ WaitOnDrop
    \/ DropPost
    \/ DropUnblock
    \/ NoDispatch
    \/ \E done \in BOOLEAN : BoardUpdate(done)

NextKill == KillScene \/ \E w \in Threads : KillWorker(w)

\* Fair scheduling: the frame loop keeps calling update() and goes on
\* through cleanup(); a started thread that can run again and again (the
\* lock it needs is free again and again) does run.
FairSpec ==
    /\ Init /\ [][NextKill]_vars
    /\ WF_vars(KillScene)
    /\ \A w \in Threads : SF_vars(KillWorker(w))

\* -------------------------------------------------- a turn that completes
\* The human player moves the piece over a column while a choice is awaited,
\* and lets it go.
HumanTouch == \E c \in KillCols : state = STATE_SELECT /\ UpdateButton(c)
HumanLetGo ==
    /\ state = STATE_SELECT /\ piece # NoPiece /\ ~press
    /\ UpdateButton(NoValue)

\* Fair scheduling of a game that is played on: as FairSpec, and besides an
\* animation that is running comes to its end, and a human player who is
\* asked for a column touches one and lets go.
TurnSpec ==
    /\ Init /\ [][NextKill]_vars
    /\ WF_vars(KillScene)
    /\ \A w \in Threads : SF_vars(KillWorker(w))
    /\ SF_vars(BoardUpdate(TRUE))
    /\ SF_vars(HumanTouch)
    /\ SF_vars(HumanLetGo)

\* ------------------------------------------- every way a target can end
\* SafeThreads whose targets use the buffer, outside any game: a thread is
\* started and killed in any order; its target calls get_choice, returns
\* or raises, and calls unblock(), invalidate() and reset() on the buffer
\* the other thread may be blocked on.
InitCrash == InitLib(Threads, "new", TRUE)

NextCrash ==
    \E w \in Threads :
       \/ ThreadStart(w)
       \/ ThreadKill(w)
       \/ \E id \in KillIdents : WorkerCallGet(w, id)
       \/ WorkerPost(w)
       \/ WorkerBlockEnter(w)
       \/ WorkerBlockCheck(w)
       \/ WorkerWake(w)
       \/ WorkerPoll(w)
       \/ ApiUnblock(w)
       \/ ApiInvalidate(w)
       \/ ApiReset(w)
       \/ \E win \in KillIdents : WorkerReturn(w, win)
       \/ WorkerRaise(w)
       \/ WorkerKilled(w)
       \/ WorkerExit(w)

CrashSpec == InitCrash /\ [][NextCrash]_vars

\* ------------------------------------------------------------ properties
Awaiting == {STATE_SELECT, STATE_DELAY}
InBlock(w) == wpc[w] \in {"check", "wait"}

\* C1: in every reachable state of the program the buffer's list holds at
\* most one message.
C1_AtMostOneMessage == Len(data) <= 1

\* The answer has been posted and the waiting worker not yet released.
C1_Witness == Len(data) = 1 /\ mpc = "wod_unblock" /\ wpc[thread] = "wait"

C3_NoAwaitingSkip ==
    [][/\ (state \in Awaiting /\ state' # state) => state' \notin Awaiting
       /\ (state' \in Awaiting /\ state' # state) => state = STATE_WAITING]_vars

\* A turn has been answered, the phase is back in STATE_WAITING and the
\* presentation is about to poll the next request.
C3_Witness == mpc = "cfp_poll" /\ dropcol \in Cols /\ state = STATE_WAITING

\* C4: a get_choice that returns, returns the column the presentation
\* answered the request with.
C4_GetChoiceReturns ==
    [][\A w \in Threads :
          (wpc[w] = "poll" /\ wpc'[w] = "run" /\ call[w].kind = "get") =>
              (dropcol \in Cols /\ wret'[w] = dropcol)]_vars

\* get_choice has returned a column to the current worker.
C4_Witness == wpc[thread] = "run" /\ wret[thread] \in Cols /\ wret[thread] = dropcol

C6_BlockOnInvalidRaises ==
    [][\A w \in Threads :
          /\ (wpc[w] = "block" /\ wpc'[w] = "check" /\ invalid) =>
                 (invalid' /\ lock' = w /\ caught'[w] = "before")
          /\ (caught[w] = "before" /\ wpc[w] = "check" /\ wpc'[w] # "check") =>
                 (invalid /\ wpc'[w] = "exiting" /\ crashed'[w] /\ lock' = Free)
          /\ caught'[w] = "before" => wpc'[w] # "wait"]_vars

\* A block() entered on an invalid buffer has raised.
C6_Witness ==
    \E w \in Threads : caught[w] = "before" /\ wpc[w] = "exiting" /\ crashed[w]

\* C7: a thread that invalidate() found waiting inside block() leaves block()
\* by raising RuntimeError: it neither returns normally nor waits again.
C7_WaitersRaise ==
    [][\A w \in Threads :
          (caught[w] = "during" /\ wpc[w] = "check" /\ wpc'[w] # "check") =>
              (wpc'[w] = "exiting" /\ crashed'[w])]_vars

\* C8 as stated: once invalid is true it is true in every later state.
C8_InvalidForever == [][invalid => invalid']_vars

\* C8 as amended: invalid stays true until reset() is called; the reset()
\* of cleanup() is the only step that clears it, and it leaves the same
\* buffer empty, not blocked and with no thread in its wait queue.
C8_InvalidUntilReset ==
    [][(invalid /\ ~invalid') =>
          (mpc = "cl_reset" /\ data' = <<>> /\ ~blocked' /\ waiters' = <<>>)]_vars

\* cleanup() has invalidated the buffer and reset it for the next game.
C8_Witness == mpc = "restart" /\ ~invalid /\ killed[thread]

\* C9: blocked is true exactly when a thread is waiting inside block():
\* when it is true some thread is inside block(), and when it is false no
\* thread is left in the wait queue.
C9_BlockedIffWaiting ==
    /\ blocked => \E w \in Threads : InBlock(w)
    /\ ~blocked => waiters = <<>>

\* C10: a killed worker never ends holding the lock, and a worker killed
\* while it waits inside block() ends.
C10_KilledWaiterEnds ==
    /\ [](\A w \in Threads : wpc[w] \in {"exiting", "dead"} => lock # w)
    /\ \A w \in Threads : (killed[w] /\ wpc[w] = "wait") ~> (wpc[w] = "dead")

\* kill() has been called on a worker that waits inside block().
C10_Witness == \E w \in Threads : killed[w] /\ wpc[w] = "wait" /\ InSeq(w, waiters)

\* C11: an exception that leaves the worker's run() is swallowed in the
\* worker: the step that raises it sets crashed and changes nothing of the
\* presentation thread, crashed stays set, and the thread ends.
C11_CrashSwallowed ==
    /\ [][\A w \in Threads :
            (fault'[w] /\ ~fault[w]) =>
                (crashed'[w] /\ wpc'[w] = "exiting" /\ sceneVars' = sceneVars)]_vars
    /\ [](\A w \in Threads : fault[w] => crashed[w])
    /\ \A w \in Threads : fault[w] ~> (wpc[w] = "dead" /\ crashed[w])

\* The current worker has crashed and ended while the frame loop runs on.
C11_Witness ==
    /\ fault[thread] /\ crashed[thread] /\ wpc[thread] = "dead"
    /\ mpc = "frame"

\* C12 as stated: in every reachable state a crashed worker is not alive.
C12_CrashedNotAlive == \A w \in Threads : crashed[w] => ~IsAlive(w)

\* C12 as amended: _crashed is set by the worker itself before it ends, and
\* the presentation acts on it only for a thread it has found not alive: the
\* tick that raises SystemExit for a crash finds the worker crashed and ended.
C12_CrashSeenWhenEnded ==
    [][(mpc' = "exit" /\ mpc # "exit") =>
          (crashed[thread] /\ wpc[thread] = "dead" /\ wpc'[thread] = "dead")]_vars

\* The tick has raised SystemExit for a crashed worker.
C12_Witness == mpc = "exit" /\ crashed[thread] /\ wpc[thread] = "dead"

\* C13 as stated: a tick that runs while the worker's crashed flag is true
\* surfaces the crash (SystemExit) in that tick, without touching the buffer
\* or the phase.
C13_CrashFirst ==
    [][(mpc = "dispatch" /\ crashed[thread] /\ mpc' # mpc) =>
          (mpc' = "exit" /\ chanVars' = chanVars /\ state' = state)]_vars

\* C13 as amended: a STATE_WAITING tick tests is_alive() first; if it finds
\* the worker ended and crashed it raises SystemExit without touching the
\* buffer or the phase, and a tick that finds a crashed worker still alive
\* finds the buffer not blocked and polls nothing.
C13_CrashAfterAlive ==
    /\ [][(mpc = "dispatch" /\ state = STATE_WAITING /\ crashed[thread]
           /\ ~IsAlive(thread) /\ mpc' # mpc) =>
             (mpc' = "exit" /\ chanVars' = chanVars /\ state' = state)]_vars
    /\ [][(mpc' = "exit" /\ mpc # "exit") =>
             (mpc = "dispatch" /\ state = STATE_WAITING)]_vars
    /\ []((mpc \in {"cfp_blocked", "cfp_poll"} /\ crashed[thread]) =>
             (mpc = "cfp_blocked" /\ ~blocked))

\* A tick has found the crashed worker still alive; the crash is surfaced
\* by a later tick.
C13_Witness == mpc = "cfp_blocked" /\ crashed[thread] /\ wpc[thread] = "exiting"

\* SystemExit has left update(): the application is ending.
ProcessExited == mpc = "exit"

\* C14 as stated: a worker crash ends the session and not the process: no
\* tick raises SystemExit out of the presentation thread.
C14_ProcessSurvives == ~ProcessExited

\* C14 as amended: a worker crash is terminal for the application.  The tick
\* that surfaces it raises SystemExit; from then on the presentation changes
\* neither the phase nor the buffer, and a game whose worker crashed is never
\* shown as complete.
C14_CrashEndsApplication ==
    /\ [][ProcessExited =>
             (ProcessExited' /\ sceneVars' = sceneVars /\ chanVars' = chanVars)]_vars
    /\ [](state = STATE_COMPLETE => ~crashed[thread])

\* The application is ending after the crash of a worker that was playing.
C14_Witness == ProcessExited /\ state = STATE_WAITING /\ ~killed[thread]

\* The tick is polling a request (push = False) that the worker left.
PollsRequest ==
    /\ mpc = "cfp_poll" /\ mpc' # mpc
    /\ PollValue(data, invalid) # NoMsg
    /\ ~PollValue(data, invalid)[2]

\* C15 as stated: a polled request of identity X makes X the active colour
\* and sets STATE_SELECT if X is a human player, STATE_DELAY if X is automated.
C15_RequestByPlayerType ==
    [][PollsRequest =>
          /\ color' = PollValue(data, invalid)[1]
          /\ state' = IF PollValue(data, invalid)[1] \in AutoIdents
                        THEN STATE_DELAY ELSE STATE_SELECT]_vars

\* C15 as amended: a polled request of identity X makes X the active colour
\* and sets STATE_SELECT whatever kind of player X is; the request is taken
\* off the buffer and no piece is made yet.
C15_RequestSelects ==
    [][PollsRequest =>
          /\ color' = PollValue(data, invalid)[1]
          /\ state' = STATE_SELECT
          /\ data' = Tail(data)
          /\ piece' = piece]_vars

\* The request of an automated player has been polled.
C15_Witness ==
    /\ state = STATE_SELECT /\ color \in AutoIdents
    /\ wpc[thread] = "wait" /\ call[thread].kind = "get"

\* The tick is polling a push (push = True) that the worker left.
PollsPush ==
    /\ mpc = "cfp_poll" /\ mpc' # mpc
    /\ PollValue(data, invalid) # NoMsg
    /\ PollValue(data, invalid)[2]

\* C16 as stated: the tick that polls a push of column c for identity X
\* applies the move to the game and sets STATE_ANIMATE in that same tick.
C16_PushAnimates ==
    [][PollsPush =>
          /\ state' = STATE_ANIMATE
          /\ heights' = [heights EXCEPT ![PollValue(data, invalid)[3]] = @ + 1]]_vars

\* C16 as amended: the tick that polls a push of column c for identity X
\* leaves the game as it is.  For a column that is not full it records X,
\* makes a piece whose choice animation ends over c and sets STATE_DELAY;
\* STATE_ANIMATE follows only in the tick that finds that animation ended.
\* For a full column it raises RuntimeError and the state stays
\* STATE_WAITING.
C16_PushDelays ==
    /\ [][PollsPush =>
            LET m == PollValue(data, invalid) IN
              /\ gameVars' = gameVars
              /\ data' = Tail(data)
              /\ color' = m[1]
              /\ IF IsFullColumn(m[3])
                   THEN mpc' = "error" /\ state' = STATE_WAITING /\ piece' = piece
                   ELSE /\ state' = STATE_DELAY
                        /\ piece'.target = m[3]
                        /\ piece'.anim = "choice"
                        /\ ~piece'.inplace]_vars
    /\ [][(state' = STATE_ANIMATE /\ state = STATE_DELAY) =>
            (mpc = "dispatch" /\ piece.inplace /\ piece.col = piece.target)]_vars

\* A push was polled and its choice animation has ended over the pushed
\* column: the piece is dropping.
C16_Witness ==
    /\ state = STATE_ANIMATE /\ piece # NoPiece /\ piece.target # NoValue
    /\ piece.col = piece.target /\ piece.anim = "drop"
    /\ wpc[thread] = "wait" /\ call[thread].kind = "set"

\* C17 as stated: a tick in STATE_WAITING that finds the worker neither
\* crashed nor blocked while the game has a winner or a full board ends with
\* STATE_COMPLETE.
C17_GameOverCompletes ==
    [][(state = STATE_WAITING /\ mpc \in {"dispatch", "cfp_blocked"}
           /\ mpc' = "anim" /\ ~crashed[thread] /\ ~blocked /\ GameOver) =>
          state' = STATE_COMPLETE]_vars

\* C17 as amended: a tick in STATE_WAITING sets STATE_COMPLETE when the
\* worker thread has ended without a crash and the game has a winner or a
\* full board, and in no other case; a tick that finds the thread still
\* alive and not blocked leaves STATE_WAITING, game over or not.
C17_EndedGameCompletes ==
    /\ [][(mpc = "dispatch" /\ mpc' # mpc /\ state = STATE_WAITING
             /\ ~IsAlive(thread) /\ ~crashed[thread] /\ GameOver) =>
            (state' = STATE_COMPLETE /\ mpc' = "anim")]_vars
    /\ [][(state' = STATE_COMPLETE /\ state # STATE_COMPLETE) =>
            (mpc = "dispatch" /\ state = STATE_WAITING /\ ~IsAlive(thread)
               /\ ~crashed[thread] /\ GameOver)]_vars
    /\ [][(mpc = "cfp_blocked" /\ mpc' # mpc /\ ~blocked) =>
            (state' = STATE_WAITING /\ mpc' = "anim")]_vars

\* The game has ended with a winner, its thread is over and the scene shows
\* STATE_COMPLETE.
C17_Witness ==
    /\ state = STATE_COMPLETE /\ winner # NoIdent
    /\ wpc[thread] = "dead" /\ ~crashed[thread]

\* Reset has been released (_reset_release is entering cleanup()) while
\* worker w waits inside block().
ResetWhileBlocked(w) ==
    /\ mpc = "cl_alive" /\ after = "restart"
    /\ thread = w /\ wpc[w] = "wait" /\ InSeq(w, waiters)

C19_WorkerEndedAfterCleanup ==
    mpc \in {"restart", "stopped"} => ~IsAlive(thread)

\* C20: the presentation posts its answer before it calls unblock(): when
\* _waitOnDrop reaches unblock() the answer for the active colour is the one
\* message of the buffer, and a worker whose block() has returned finds that
\* answer, a push message for the identity of its call, at the head of a
\* valid buffer; its poll() never returns None.
C20_AnswerBeforeUnblock ==
    /\ [](mpc = "wod_unblock" => data = <<Answer(color, dropcol)>>)
    /\ [](\A w \in Threads :
            (wpc[w] = "poll" /\ ~killed[w]) =>
                /\ ~invalid /\ data # <<>>
                /\ Head(data)[2] /\ Head(data)[1] = call[w].ident)
    /\ [][\A w \in Threads :
            (wpc[w] = "poll" /\ wpc'[w] # "poll" /\ ~killed[w]) =>
                (wpc'[w] = "run" /\ ~fault'[w] /\ data' = <<>>)]_vars

\* block() has returned in get_choice after the presentation's unblock(),
\* and the answer is waiting to be polled.
C20_Witness ==
    /\ wpc[thread] = "poll" /\ ~killed[thread] /\ call[thread].kind = "get"
    /\ state = STATE_WAITING /\ data = <<Answer(color, dropcol)>>

\* The frame loop is dispatching a frame whose touch is over a board column
\* while no choice is awaited and no piece is dropping.
SubmitOutOfPhase ==
    /\ mpc = "dispatch" /\ mpc' # mpc
    /\ touch \in Cols
    /\ state \in {STATE_WAITING, STATE_COMPLETE, STATE_RESET}

\* C21 as stated (its rejection part): a choice submitted in STATE_WAITING,
\* STATE_COMPLETE or STATE_RESET is rejected with an error.
C21_SubmitRejected == [][SubmitOutOfPhase => mpc' = "error"]_vars

\* C21 as amended: the presentation posts and unblocks only in
\* STATE_ANIMATE, for the colour it polled and while the worker that asked
\* still waits inside block(); a touch in STATE_WAITING, STATE_COMPLETE or
\* STATE_RESET raises nothing and is ignored: the frame leaves the buffer
\* and the piece as they are.
C21_AnswerOnlyForPendingTurn ==
    /\ [](mpc \in {"wod_post", "wod_unblock"} =>
            /\ state = STATE_ANIMATE /\ color # NoIdent
            /\ wpc[thread] = "wait" /\ InSeq(thread, waiters)
            /\ call[thread].ident = color)
    /\ [][(Len(data') > Len(data) /\ wpc' = wpc) => mpc = "wod_post"]_vars
    /\ [][(blocked /\ ~blocked' /\ wpc' = wpc) =>
            mpc \in {"wod_unblock", "cl_reset"}]_vars
    /\ [][SubmitOutOfPhase =>
            (mpc' # "error" /\ chanVars' = chanVars /\ piece' = piece)]_vars

\* A column is touched while the scene shows a finished game.
C21_Witness ==
    /\ mpc = "anim" /\ touch \in Cols /\ state = STATE_COMPLETE
    /\ data = <<>> /\ ~blocked

\* The places where the presentation thread is about to call a method of
\* the buffer, each of which takes the lock: isBlocked and poll in
\* _checkForPlayer, post and unblock in _waitOnDrop, invalidate and reset in
\* cleanup.
LockCalls == {"cfp_blocked", "cfp_poll", "wod_post", "wod_unblock",
              "cl_inval", "cl_reset"}

\* C22: the lock is never held by a thread suspended in cond.wait(): it is
\* held only by a thread that is running the loop of block(), and that
\* thread gives it up at its next step; so every call the presentation
\* thread makes on the buffer goes through.
C22_PresentationNeverSuspends ==
    /\ [](\A w \in Threads : wpc[w] = "wait" => lock # w)
    /\ [](lock # Free => wpc[lock] = "check")
    /\ [][\A w \in Threads : (lock = w /\ wpc'[w] # wpc[w]) => lock' = Free]_vars
    /\ \A m \in LockCalls : (mpc = m) ~> (mpc # m)

\* The presentation thread polls while the worker is suspended in block().
C22_Witness ==
    /\ mpc = "cfp_poll" /\ lock = Free
    /\ wpc[thread] = "wait" /\ InSeq(thread, waiters)

\* The steps of a frame in which the presentation thread reads the Game or
\* its Board: getWinner() / isFullBoard() in _checkForPlayer once the thread
\* has ended without a crash, isFullColumn() in _processAI for a polled
\* push, isFullColumn() and findAvailableRow() in _getPlayerChoice when the
\* piece is let go, findAvailableRow() in _waitOnChoice when the choice
\* animation has ended.
ReadsGameInFrame ==
    \/ /\ mpc = "dispatch" /\ Dispatch(state) = "_checkForPlayer"
       /\ ~IsAlive(thread) /\ ~crashed[thread]
    \/ /\ mpc = "cfp_poll" /\ lock = Free
       /\ PollValue(data, invalid) # NoMsg /\ PollValue(data, invalid)[2]
    \/ /\ mpc = "dispatch" /\ Dispatch(state) = "_getPlayerChoice"
       /\ touch = NoValue /\ piece # NoPiece
    \/ /\ mpc = "dispatch" /\ Dispatch(state) = "_waitOnChoice"
       /\ piece.inplace

\* _reset_release reads self._game.getPlayers() when cleanup() has returned.
ReadsGameInReset == mpc = "restart" /\ nthreads < MaxThreads

\* C23: whenever the presentation thread reads the game, the worker playing
\* it is inside block() or is no longer alive.
C23_NoConcurrentGameAccess ==
    (ReadsGameInFrame \/ ReadsGameInReset) =>
        (InBlock(thread) \/ ~IsAlive(thread))

\* C24: the buffer is invalid only inside cleanup(), between its
\* invalidate() and its reset(); every tick that calls isBlocked() or poll()
\* and every post(), block() or poll() that a worker runs finds it valid.
C24_ValidDuringPlay ==
    /\ [](invalid => mpc = "cl_reset")
    /\ [](mpc \in {"cfp_blocked", "cfp_poll", "wod_post", "wod_unblock"} =>
            ~invalid)
    /\ [][\A w \in Threads :
            (wpc[w] \in {"post", "block", "check", "poll"} /\ ~killed[w]
               /\ wpc'[w] # wpc[w]) => ~invalid]_vars

\* A tick polls the request of the worker started by a reset: the buffer
\* that cleanup() invalidated is valid again.
C24_Witness ==
    /\ thread = 2 /\ mpc = "cfp_poll" /\ ~invalid /\ Len(data) = 1
    /\ wpc[thread] = "wait"

\* C25: while the buffer is invalid no method called on it, block()
\* included, changes the list of messages or the blocked flag.
C25_InvalidFreezes ==
    [][(invalid /\ invalid') => (data' = data /\ blocked' = blocked)]_vars

\* C26: the list of messages is a queue.  A step changes it by appending
\* one message (post), by removing its head (poll), or by emptying it (the
\* reset of an invalid buffer).  The poll() that removes the head returns
\* that head to its caller; a poll() that returns None found the buffer
\* empty or invalid and changed nothing.  No poll() waits: its caller is
\* not queued on the condition and runs on.
C26_PollIsFifo ==
    /\ [][data' # data =>
            \/ ~invalid /\ \E m \in Messages : data' = Append(data, m)
            \/ ~invalid /\ data # <<>> /\ data' = Tail(data)
            \/ invalid /\ ~invalid' /\ data' = <<>>]_vars
    /\ [][(~invalid /\ data # <<>> /\ data' = Tail(data)) =>
            \E w \in Threads :
               /\ call'[w] = [kind |-> "polled", ident |-> Head(data)[1],
                              value |-> Head(data)[3]]
               /\ wpc'[w] = "run" /\ wpc[w] = "run"]_vars
    /\ [][\A w \in Threads :
            (call'[w] # call[w] /\ call'[w].kind = "polled") =>
               /\ wpc'[w] = "run" /\ waiters' = waiters /\ blocked' = blocked
               /\ invalid' = invalid
               /\ IF invalid \/ data = <<>>
                    THEN call'[w].ident = NoIdent /\ data' = data
                    ELSE call'[w].ident = Head(data)[1] /\ data' = Tail(data)]_vars

\* Of two different messages in the buffer the older has just been polled.
C26_Witness ==
    \E w \in Threads :
       /\ call[w].kind = "polled" /\ call[w].ident # NoIdent
       /\ Len(data) = 1 /\ data[1][1] # call[w].ident

\* C27: with several threads inside block(), an unblock() releases exactly
\* one waiter and that waiter returns from block(): unblock() takes one
\* thread, the oldest, off the wait queue and leaves the others queued, and
\* the thread it has notified finds blocked false when it runs again.
C27_UnblockReleasesOne ==
    /\ [][(blocked /\ ~blocked' /\ ~invalid /\ waiters # <<>>) =>
            waiters' = Tail(waiters)]_vars
    /\ [](\A w \in Clients :
            (Notified(w) /\ caught[w] = "no" /\ ~invalid /\ waiters # <<>>) =>
                ~blocked)

\* C28: a start() on a thread that has been started before raises
\* RuntimeError and changes nothing; the target begins to run only from a
\* thread that was never started, and a thread never returns to that state:
\* the target runs at most once.
C28_StartOnlyOnce ==
    /\ [][\A w \in Threads :
            (call'[w] # call[w] /\ call'[w].kind = "start" /\ wpc[w] # "new") =>
                /\ call'[w].ident = "RuntimeError"
                /\ wpc' = wpc /\ killed' = killed /\ crashed' = crashed
                /\ chanVars' = chanVars]_vars
    /\ [][\A w \in Threads :
            (wpc'[w] = "run" /\ wpc[w] # "run") =>
                (wpc[w] = "new" /\ call'[w] = Called("start", "started"))]_vars
    /\ [][\A w \in Threads : wpc[w] # "new" => wpc'[w] # "new"]_vars

\* A second start() has failed on a thread whose target has already ended.
C28_Witness ==
    \E w \in Threads :
       wpc[w] = "dead" /\ call[w] = Called("start", "RuntimeError")

\* C29: a kill() on a thread that was never started raises an error (the
\* TypeError of ctypes.c_long(None)) and changes nothing else: no exception
\* is left pending in the thread, the thread can still be started, and the
\* buffer is as it was.
C29_KillUnstartedFails ==
    /\ [][\A w \in Threads :
            (call'[w] # call[w] /\ call'[w].kind = "kill" /\ wpc[w] = "new") =>
                /\ call'[w].ident = "TypeError"
                /\ wpc' = wpc /\ killed' = killed /\ crashed' = crashed
                /\ fault' = fault /\ chanVars' = chanVars]_vars
    /\ [](\A w \in Threads : wpc[w] = "new" => (~killed[w] /\ ~crashed[w]))

\* A kill() has failed on a thread that is not started yet, and nothing is
\* pending in it.
C29_Witness ==
    \E w \in Threads :
       /\ wpc[w] = "new" /\ call[w] = Called("kill", "TypeError")
       /\ ~killed[w]

\* C30: the singleton is made once.  The class keeps its instance once it
\* has one; the SharedBuffer() that creates it leaves an empty, unblocked,
\* valid buffer, only one call ever creates it, and every later
\* SharedBuffer(), whatever the other threads have done meanwhile, returns
\* the cached instance with data, blocked and invalid as they were.  No
\* method runs before the instance exists.
C30_SingletonInitialisedOnce ==
    /\ [][instance => instance']_vars
    /\ [](~instance => (data = <<>> /\ ~blocked /\ ~invalid /\ waiters = <<>>))
    /\ [][\A w \in Threads :
            (call'[w] # call[w] /\ call'[w].kind = "new") =>
                IF instance
                  THEN /\ call'[w].ident = "cached"
                       /\ chanVars' = chanVars
                  ELSE /\ call'[w].ident = "created"
                       /\ data' = <<>> /\ ~blocked' /\ ~invalid']_vars
    /\ [](\A v, w \in Threads :
            (call[v].kind = "new" /\ call[v].ident = "created"
               /\ call[w].kind = "new" /\ call[w].ident = "created") => v = w)

\* A thread has been given the cached instance while the buffer holds a
\* message, is blocked and is invalid.
C30_Witness ==
    \E w \in Threads :
       /\ call[w].kind = "new" /\ call[w].ident = "cached"
       /\ data # <<>> /\ blocked /\ invalid

\* C31: a reset() called on a valid buffer does nothing: the list of
\* messages, the blocked flag, the invalid flag, the lock and the wait queue
\* are as they were, and no thread inside block() is moved.
C31_ResetOnValidIsNoOp ==
    [][\A w \in Threads :
          (call'[w] # call[w] /\ call'[w].kind = "reset" /\ ~invalid) =>
              /\ call'[w].ident = "valid"
              /\ chanVars' = chanVars
              /\ wpc' = wpc /\ crashed' = crashed]_vars

\* reset() has been called on a valid, blocked buffer that holds a message
\* while another thread waits inside block(): all three are still there.
C31_Witness ==
    \E v, w \in Threads :
       /\ call[w] = Called("reset", "valid") /\ wpc[w] = "run"
       /\ ~invalid /\ data # <<>> /\ blocked
       /\ wpc[v] = "wait" /\ InSeq(v, waiters)

\* C32: STATE_COMPLETE is left only through the Reset button.  The one step
\* that changes the state from STATE_COMPLETE is the Button.update that
\* registers a press (_reset_press: STATE_RESET); no handler of a tick, no
\* method of the buffer and no step of a worker changes it, and a tick that
\* runs in STATE_COMPLETE takes no handler and leaves the buffer alone.
C32_CompleteUntilReset ==
    /\ [][(state = STATE_COMPLETE /\ state' # state) =>
            /\ mpc = "frame" /\ touch' = TouchReset
            /\ ~press /\ press'
            /\ state' = STATE_RESET
            /\ chanVars' = chanVars /\ workerVars' = workerVars]_vars
    /\ [][(state = STATE_COMPLETE /\ mpc \in {"dispatch", "anim"} /\ mpc' # mpc) =>
            (chanVars' = chanVars /\ state' = state
               /\ mpc' = IF mpc = "dispatch" THEN "anim" ELSE "frame")]_vars

\* A whole tick has run in STATE_COMPLETE over a drawn game (a full board
\* without a winner) and the next frame is about to start.
C32_Witness ==
    /\ state = STATE_COMPLETE /\ mpc = "frame"
    /\ IsFullBoard /\ winner = NoIdent
    /\ touch = NoValue /\ ~press

\* The human player lets go of the piece (no touch in a STATE_SELECT frame)
\* over a column that has no room left.
ChoosesFullColumn ==
    /\ mpc = "dispatch" /\ mpc' # mpc
    /\ state = STATE_SELECT
    /\ touch = NoValue /\ piece # NoPiece
    /\ heights[piece.col] >= BOARD_ROWS

\* C33: in STATE_SELECT only a legal choice is accepted.  Letting the piece
\* go over a full column leaves STATE_SELECT, destroys the piece and touches
\* nothing of the buffer; STATE_ANIMATE is entered from STATE_SELECT only with
\* the piece over a column that has room; and the column that _waitOnDrop
\* posts for a get_choice, and that get_choice returns, is a column of the
\* board that is not full at that moment.
C33_OnlyLegalChoice ==
    /\ [][ChoosesFullColumn =>
            (state' = STATE_SELECT /\ piece' = NoPiece /\ mpc' = "anim"
               /\ chanVars' = chanVars)]_vars
    /\ [][(state = STATE_SELECT /\ state' = STATE_ANIMATE) =>
            (piece.col \in Cols /\ heights[piece.col] < BOARD_ROWS
               /\ piece'.col = piece.col)]_vars
    /\ [][(mpc = "wod_post" /\ mpc' # mpc /\ call[thread].kind = "get") =>
            (piece.col \in Cols /\ heights[piece.col] < BOARD_ROWS
               /\ data' = <<Answer(color, piece.col)>>)]_vars
    /\ [][\A w \in Threads :
            (wpc[w] = "poll" /\ wpc'[w] = "run" /\ call[w].kind = "get") =>
                (wret'[w] \in Cols /\ heights[wret'[w]] < BOARD_ROWS)]_vars

\* get_choice has returned the one column with room of a board whose other
\* column is full.
C33_Witness ==
    /\ wpc[thread] = "run" /\ wret[thread] \in Cols
    /\ heights[wret[thread]] < BOARD_ROWS
    /\ \E c \in Cols : heights[c] >= BOARD_ROWS
    /\ state = STATE_WAITING /\ data = <<>>

\* The turn of worker w is cut short: Reset is pressed, cleanup() runs or
\* has run, the worker is killed or replaced, or the frame loop has stopped
\* with an exception.
TurnCut(w) ==
    \/ press \/ killed[w] \/ thread # w
    \/ mpc \in {"cl_alive", "cl_kill", "cl_inval", "cl_reset", "restart",
                "stopped", "error", "exit"}

\* C34: no wake-up is lost.  The unblock() of _waitOnDrop is issued only
\* when the worker is queued inside cond.wait(): it clears blocked and
\* takes that worker off the wait queue; the worker it has notified finds
\* blocked false when it runs again and leaves block() by returning.  With
\* the frame loop ticking, animations ending and the human player choosing,
\* every block() the worker enters returns, unless the turn is cut short by
\* Reset or by the end of the application.
C34_NoLostWakeup ==
    /\ [][(mpc = "wod_unblock" /\ mpc' # mpc) =>
            /\ blocked /\ waiters = <<thread>> /\ wpc[thread] = "wait"
            /\ ~blocked' /\ waiters' = <<>>]_vars
    /\ [](\A w \in Threads :
            (Notified(w) /\ w = thread /\ ~killed[w] /\ caught[w] = "no") =>
                (~blocked /\ data # <<>>))
    /\ [][\A w \in Threads :
            (wpc[w] = "check" /\ wpc'[w] = "wait") => waiters = <<>>]_vars
    /\ \A w \in Threads :
         (wpc[w] \in {"block", "check", "wait"} /\ w = thread /\ ~TurnCut(w))
             ~> (wpc[w] = "poll" \/ TurnCut(w))

\* unblock() has taken the waiting worker of the second game off the wait
\* queue; the worker has not run again yet.
C34_Witness ==
    /\ thread = 2 /\ Notified(2) /\ ~killed[2] /\ caught[2] = "no"
    /\ ~blocked /\ state = STATE_WAITING /\ mpc = "anim"

\* A worker of an earlier game: started, and no longer GameScene._thread.
OldWorker(w) == w # thread /\ wpc[w] # "new"

\* C35: the game started by a reset shares nothing with the worker of the
\* game before it.  When _reset_release starts the new worker the buffer is
\* empty, not blocked, valid and has no thread queued, and the old worker
\* has ended or has the SystemExit of kill() pending; from then on the only
\* steps the old worker takes are the ones that end it, and they change
\* neither the list of messages nor the blocked flag.  The message a tick
\* polls is the one message the current worker posted for the call it is
\* blocked in.
C35_NewSessionIsolated ==
    /\ [][(mpc = "restart" /\ mpc' # mpc) =>
            /\ data = <<>> /\ ~blocked /\ ~invalid /\ waiters = <<>>
            /\ killed[thread] \/ wpc[thread] \in {"exiting", "dead"}
            /\ thread' # thread /\ wpc'[thread'] = "run"]_vars
    /\ [](\A w \in Threads :
            (OldWorker(w) /\ wpc[w] \notin {"exiting", "dead"}) => killed[w])
    /\ [][\A w \in Threads :
            (OldWorker(w) /\ wpc'[w] # wpc[w]) =>
                /\ wpc'[w] \in {"exiting", "dead"}
                /\ data' = data /\ blocked' = blocked /\ invalid' = invalid
                /\ waiters' = waiters /\ wret' = wret]_vars
    /\ [](mpc = "cfp_poll" =>
            /\ wpc[thread] \in {"check", "wait"}
            /\ data = <<Msg(call[thread].ident, call[thread].kind = "set",
                            call[thread].value)>>)

\* A tick of the second game polls the request of its worker while the
\* worker of the first game, killed on its way to post(), has not ended.
C35_Witness ==
    /\ thread = 2 /\ mpc = "cfp_poll" /\ Len(data) = 1
    /\ wpc[1] = "post" /\ killed[1]

\* The positions of the presentation thread inside cleanup().
InCleanup == mpc \in {"cl_alive", "cl_kill", "cl_inval", "cl_reset"}

\* C36: cleanup() always completes.  Whatever the worker is doing, no step
\* of cleanup() raises; when cleanup() has returned the buffer is valid,
\* empty and not blocked; and under fair scheduling a cleanup() that has
\* been entered does return.
C36_CleanupCompletes ==
    /\ [][(InCleanup /\ mpc' # mpc) => mpc' # "error"]_vars
    /\ [](mpc \in {"restart", "stopped"} =>
            (~invalid /\ data = <<>> /\ ~blocked))
    /\ (mpc = "cl_alive") ~> (mpc \in {"restart", "stopped"})

\* The target of thread w ends in this step: run() returns or an exception
\* leaves it.
TargetEnds(w) == wpc[w] # "exiting" /\ wpc'[w] = "exiting"

PollsRejected ==
    /\ mpc = "cfp_poll" /\ mpc' # mpc
    /\ PollValue(data, invalid) # NoMsg
    /\ \/ PollValue(data, invalid)[1] \notin Idents
       \/ /\ PollValue(data, invalid)[2]
          /\ heights[PollValue(data, invalid)[3]] >= BOARD_ROWS

\* The current worker waits inside block() for an answer to a message that
\* is gone: the buffer is blocked and empty and no turn is in progress.
Stranded ==
    /\ state \in {STATE_WAITING, STATE_RESET}
    /\ blocked /\ data = <<>>
    /\ wpc[thread] = "wait" /\ InSeq(thread, waiters) /\ ~killed[thread]

\* C38: a tick that rejects the message it polled raises after the message
\* has been taken off the buffer: the state stays STATE_WAITING, no piece is
\* made, nothing is posted and unblock() is not called, so the worker is
\* left waiting for an answer that will not come.  It stays so, whatever
\* ticks follow, until cleanup() kills it (Reset released, or the window
\* closed).
C38_RejectedMessageStrands ==
    /\ [][PollsRejected =>
            /\ mpc' = "error"
            /\ data' = Tail(data) /\ data' = <<>>
            /\ state = STATE_WAITING /\ state' = STATE_WAITING
            /\ piece' = piece
            /\ blocked' /\ waiters' = waiters
            /\ Stranded']_vars
    /\ [][Stranded => (Stranded' \/ killed'[thread])]_vars
    /\ [][(Stranded /\ killed'[thread]) => mpc = "cl_kill"]_vars

\* A frame has been abandoned after the push of a full column was rejected,
\* and the next tick finds the worker still blocked.
C38_Witness ==
    /\ Stranded /\ mpc = "cfp_poll" /\ state = STATE_WAITING
    /\ call[thread].kind = "set" /\ call[thread].ident \in Idents
    /\ heights[call[thread].value] >= BOARD_ROWS

\* C39: Reset takes two steps.  The press (a touch inside the released
\* button) sets STATE_RESET and nothing else; the state is STATE_RESET
\* exactly while the button is held down, and a tick in that state takes no
\* handler: it leaves the buffer and the state as they are.  The release
\* (no touch on the pressed button) is the only way into _reset_release,
\* which runs cleanup() and then starts the new game and its worker and sets
\* STATE_WAITING; the worker is replaced, and STATE_RESET left, by that step
\* alone.
C39_ResetIsTwoStep ==
    /\ [][(press' /\ ~press) =>
            /\ mpc = "frame" /\ touch' = TouchReset /\ mpc' = "dispatch"
            /\ state' = STATE_RESET
            /\ chanVars' = chanVars /\ workerVars' = workerVars
            /\ thread' = thread /\ gameVars' = gameVars]_vars
    /\ [](press <=> state = STATE_RESET)
    /\ [][(state = STATE_RESET /\ mpc \in {"dispatch", "anim"} /\ mpc' # mpc) =>
            (chanVars' = chanVars /\ state' = state
               /\ mpc' = IF mpc = "dispatch" THEN "anim" ELSE "frame")]_vars
    /\ [][(after' = "restart" /\ after # "restart") =>
            (mpc = "frame" /\ press /\ touch' = NoValue /\ mpc' = "cl_alive")]_vars
    /\ [](mpc = "restart" => (press /\ after = "none"))
    /\ [][(state = STATE_RESET /\ state' # state) =>
            (mpc = "restart" /\ state' = STATE_WAITING /\ ~press')]_vars
    /\ [][thread' # thread =>
            /\ mpc = "restart" /\ state = STATE_RESET /\ state' = STATE_WAITING
            /\ wpc[thread'] = "new" /\ wpc'[thread'] = "run"
            /\ heights' = [c \in Cols |-> 0] /\ winner' = NoIdent
            /\ piece' = NoPiece]_vars

\* A tick has run in STATE_RESET, with the button held down, past a worker
\* that is blocked with its request in the buffer: the request is still
\* there.
C39_Witness ==
    /\ state = STATE_RESET /\ press /\ mpc = "anim" /\ touch = TouchReset
    /\ blocked /\ Len(data) = 1 /\ ~data[1][2]
    /\ wpc[thread] = "wait" /\ InSeq(thread, waiters)

====
